---- MODULE Spec2Model ----
(***************************************************************************)
(* Model of the platform-1 departures service: the Fetcher                 *)
(* (fetch_departures_from_ptv with the Normalizer parse_departure_data),   *)
(* the refresh loop update_cache that writes the process-wide cache, and   *)
(* the GET /api/departures handler that reads it.                          *)
(***************************************************************************)
EXTENDS Integers, Sequences, FiniteSets, TLC

(***************************************************************************)
(* Bounds of the model.                                                    *)
(***************************************************************************)
\* refresh cycles the loop may start
MaxCycles == 2
\* concurrent GET /api/departures handlers
MaxReaders == 1
\* raw departure records in one upstream response of the Fetcher runs
MaxRaw == 2

(***************************************************************************)
(* Program constants.                                                      *)
(***************************************************************************)
\* time.sleep(300) after a cycle that ran through
SleepNormal == 300
\* time.sleep(60) in the exception handler
SleepRetry == 60
\* random.randint(15, 120): the jitter of the basic record's fallback time
JitterMin == 15
JitterMax == 120
\* minutes of a day: strftime('%H:%M') keeps the time of day only
DayMinutes == 24 * 60
\* local time at process start, in minutes (09:58)
StartMinute == 9 * 60 + 58

(***************************************************************************)
(* Python values as they come out of the JSON payload.  A value carries    *)
(* its type and the text str() gives for it, so that the string "1" and    *)
(* the number 1 are different values with the same str().                  *)
(***************************************************************************)
Missing == [t |-> "missing", v |-> ""]
NoneV == [t |-> "none", v |-> "None"]
StrV(s) == [t |-> "str", v |-> s]
IntV(s) == [t |-> "int", v |-> s]
BoolV(s) == [t |-> "bool", v |-> s]

\* str(x)
PyStr(x) == x.v

\* bool(x), with an absent key read as None by dict.get(key)
Truthy(x) ==
    CASE x.t = "missing" -> FALSE
      [] x.t = "none" -> FALSE
      [] x.t = "str" -> x.v # ""
      [] x.t = "int" -> x.v # "0"
      [] x.t = "bool" -> x.v = "True"
      [] OTHER -> TRUE

\* departure.get(key, default)
Get(d, k, default) == IF d[k].t = "missing" THEN default ELSE d[k]

\* the empty mapping {}
EmptyMap == [k \in {} |-> ""]

\* mapping.get(key, {}) if mapping else {}
MapGet(m, k) == IF k \in DOMAIN m THEN m[k] ELSE EmptyMap

(***************************************************************************)
(* Times.  A local time is a number of minutes; strftime('%H:%M') gives    *)
(* the pair <<hour, minute>>, which orders as the HH:MM string does.       *)
(***************************************************************************)
StrfHM(t) == <<(t \div 60) % 24, t % 60>>

\* comparison of two HH:MM strings
HMLess(a, b) == a[1] < b[1] \/ (a[1] = b[1] /\ a[2] < b[2])

\* The timestamps of the payloads: for each ISO-8601 text that
\* datetime.fromisoformat accepts, the UTC minute of the day and the
\* Australia/Melbourne offset in force on that date.
IsoTable ==
    ("2024-01-01T00:00:00Z" :> [utc |-> 0, offset |-> 660]) @@
    ("2024-01-01T21:15:00Z" :> [utc |-> 1275, offset |-> 660]) @@
    ("2024-01-01T20:05:00Z" :> [utc |-> 1205, offset |-> 660]) @@
    ("2024-07-01T20:50:00Z" :> [utc |-> 1250, offset |-> 600])

\* whether datetime.fromisoformat(x.replace('Z', '+00:00')) returns: x must be
\* a str (anything else has no replace) in ISO format
ParsesIso(x) == x.t = "str" /\ x.v \in DOMAIN IsoTable

\* datetime.fromisoformat(...).astimezone(MELBOURNE_TZ).strftime('%H:%M')
IsoToLocalHM(x) ==
    StrfHM((IsoTable[x.v].utc + IsoTable[x.v].offset) % DayMinutes)

\* the absent live_time
NoTime == <<>>

(***************************************************************************)
(* parse_departure_data: the Normalizer.  The result is                    *)
(* [raised |-> TRUE] when an exception leaves the function, and otherwise  *)
(* [raised |-> FALSE, value |-> the formatted departure].                  *)
(***************************************************************************)
DisruptionInfo(ids, disruptions) ==
    LET picked == SelectSeq(ids, LAMBDA i : PyStr(i) \in DOMAIN disruptions)
    IN  [n \in 1..Len(picked) |->
            LET d == disruptions[PyStr(picked[n])]
            IN  [title |-> IF "title" \in DOMAIN d THEN d.title ELSE "",
                 description |-> IF "description" \in DOMAIN d
                                 THEN d.description ELSE ""]]

\* EstimatedRaises with the estimated time parsed outside try/except
EstimatedRaisesUnguarded(estimated_time_utc) ==
    Truthy(estimated_time_utc) /\ ~ParsesIso(estimated_time_utc)

\* whether an exception of the parse of the estimated time leaves the
\* function: the parse is inside try/except, which only logs
EstimatedRaises(estimated_time_utc) == FALSE

\* ResolveDestination without the hardcoded city-bound name
ResolveDestinationNoFallback(run_info, direction_info, direction_id) ==
    IF "destination_name" \in DOMAIN run_info
    THEN run_info.destination_name
    ELSE IF "direction_name" \in DOMAIN direction_info
    THEN direction_info.direction_name
    ELSE "Unknown"

\* the destination, with its fallbacks: the run's destination_name, else the
\* direction's direction_name, else 'Camberwell' for direction_id '1'
ResolveDestination(run_info, direction_info, direction_id) ==
    IF "destination_name" \in DOMAIN run_info
    THEN run_info.destination_name
    ELSE IF "direction_name" \in DOMAIN direction_info
    THEN direction_info.direction_name
    ELSE IF direction_id = "1" THEN "Camberwell" ELSE "Unknown"

parse_departure_data(departure, routes, directions, runs, disruptions, now) ==
    LET route_id == PyStr(Get(departure, "route_id", StrV("")))
        direction_id == PyStr(Get(departure, "direction_id", StrV("")))
        run_id == PyStr(Get(departure, "run_id", StrV("")))
        route_info == MapGet(routes, route_id)
        direction_info == MapGet(directions, direction_id)
        run_info == MapGet(runs, run_id)
        destination == ResolveDestination(run_info, direction_info, direction_id)
        scheduled_time_utc == departure.scheduled_departure_utc
        scheduled_raises ==
            Truthy(scheduled_time_utc) /\ ~ParsesIso(scheduled_time_utc)
        scheduled_time ==
            IF ~Truthy(scheduled_time_utc) THEN StrfHM(now)
            ELSE IsoToLocalHM(scheduled_time_utc)
        estimated_time_utc == departure.estimated_departure_utc
        has_vehicle == "vehicle_descriptor" \in DOMAIN run_info
        vehicle_raises == has_vehicle /\ run_info.vehicle_descriptor.t # "dict"
        vehicle_info ==
            IF has_vehicle
            THEN Get(run_info.vehicle_descriptor, "description", NoneV)
            ELSE NoneV
        disruption_info ==
            IF DOMAIN disruptions # {} /\ departure.disruption_ids # <<>>
            THEN DisruptionInfo(departure.disruption_ids, disruptions)
            ELSE <<>>
        route_name ==
            IF "route_name" \in DOMAIN route_info THEN route_info.route_name
            ELSE IF route_id = "1" THEN "Alamein" ELSE "Unknown"
        direction_name ==
            IF "direction_name" \in DOMAIN direction_info
            THEN direction_info.direction_name
            ELSE IF direction_id = "1" THEN "City" ELSE "Unknown"
        live_time ==
            IF Truthy(estimated_time_utc) /\ ParsesIso(estimated_time_utc)
            THEN IsoToLocalHM(estimated_time_utc)
            ELSE NoTime
    IN  IF scheduled_raises \/ vehicle_raises
           \/ EstimatedRaises(estimated_time_utc)
        THEN [raised |-> TRUE]
        ELSE [raised |-> FALSE,
              value |-> [scheduled_time |-> scheduled_time,
                         live_time |-> live_time,
                         destination |-> destination,
                         platform |-> Get(departure, "platform_number",
                                          StrV("Unknown")),
                         at_platform |-> Get(departure, "at_platform",
                                             BoolV("False")),
                         vehicle |-> vehicle_info,
                         direction |-> direction_name,
                         disruptions |-> disruption_info,
                         route_name |-> route_name]]

(***************************************************************************)
(* fetch_departures_from_ptv: the Fetcher.  An upstream response is        *)
(* [kind, data]: kind says how requests.get, raise_for_status and          *)
(* response.json() end, data is the decoded payload.                       *)
(***************************************************************************)

\* the basic record of one platform-1 departure (the outer try block up to
\* the enrichment); raises when the scheduled time is there and unparseable
BasicRaises(departure) ==
    \/ /\ Truthy(departure.scheduled_departure_utc)
       /\ ~ParsesIso(departure.scheduled_departure_utc)
    \/ EstimatedRaises(departure.estimated_departure_utc)

BasicDeparture(departure, platform, now, jitter) ==
    LET route_id == PyStr(Get(departure, "route_id", StrV("")))
        direction_id == PyStr(Get(departure, "direction_id", StrV("")))
        scheduled_time_utc == departure.scheduled_departure_utc
        estimated_time_utc == departure.estimated_departure_utc
    IN  [scheduled_time |->
             IF ~Truthy(scheduled_time_utc) THEN StrfHM(now + jitter)
             ELSE IsoToLocalHM(scheduled_time_utc),
         live_time |->
             IF Truthy(estimated_time_utc) /\ ParsesIso(estimated_time_utc)
             THEN IsoToLocalHM(estimated_time_utc)
             ELSE NoTime,
         destination |-> IF direction_id = "1" THEN "Camberwell" ELSE "Unknown",
         platform |-> StrV(platform),
         at_platform |-> Get(departure, "at_platform", BoolV("False")),
         vehicle |-> NoneV,
         direction |-> IF direction_id = "1" THEN "City" ELSE "Unknown",
         disruptions |-> <<>>,
         route_name |-> IF route_id = "1" THEN "Alamein" ELSE "Unknown"]

\* formatted_departure.update(enhanced_departure): every key of the enhanced
\* record replaces the basic record's
DictUpdate(basic, enhanced) ==
    [k \in DOMAIN basic |-> IF k \in DOMAIN enhanced THEN enhanced[k] ELSE basic[k]]

\* the counters and the list before the first record
FetchStart ==
    [departures |-> <<>>, platform1_count |-> 0, error_count |-> 0,
     enhancement_errors |-> 0]

\* IsPlatform1 comparing platform_number itself with '1', without str()
IsPlatform1Unconverted(departure) == departure.platform_number = StrV("1")

\* whether the loop keeps a record: str(platform_number) == '1'
IsPlatform1(departure) ==
    PyStr(Get(departure, "platform_number", StrV(""))) = "1"

\* ProcessDeparture with the enrichment call in the outer try block only
ProcessDepartureNoInnerTry(st, departure, data, now, jitter) ==
    IF ~IsPlatform1(departure) THEN st
    ELSE
        LET platform == PyStr(Get(departure, "platform_number", StrV("")))
            counted == [st EXCEPT !.platform1_count = @ + 1]
            enhanced == parse_departure_data(departure, data.routes,
                            data.directions, data.runs, data.disruptions, now)
            basic == BasicDeparture(departure, platform, now, jitter)
        IN  IF BasicRaises(departure) \/ enhanced.raised
            THEN [counted EXCEPT !.error_count = @ + 1]
            ELSE [counted EXCEPT
                     !.departures = Append(@, DictUpdate(basic, enhanced.value))]

\* one pass of the body of `for departure in raw_departures`
ProcessDeparture(st, departure, data, now, jitter) ==
    IF ~IsPlatform1(departure) THEN st
    ELSE
        LET platform == PyStr(Get(departure, "platform_number", StrV("")))
            counted == [st EXCEPT !.platform1_count = @ + 1]
            enhanced == parse_departure_data(departure, data.routes,
                            data.directions, data.runs, data.disruptions, now)
            basic == BasicDeparture(departure, platform, now, jitter)
        IN  IF BasicRaises(departure)
            THEN [counted EXCEPT !.error_count = @ + 1]
            ELSE IF enhanced.raised
            THEN [counted EXCEPT !.enhancement_errors = @ + 1,
                                 !.departures = Append(@, basic)]
            ELSE [counted EXCEPT
                     !.departures = Append(@, DictUpdate(basic, enhanced.value))]

RECURSIVE FetchLoop(_, _, _, _, _)
FetchLoop(st, i, data, now, jitter) ==
    IF i > Len(data.departures) THEN st
    ELSE FetchLoop(ProcessDeparture(st, data.departures[i], data, now, jitter[i]),
                   i + 1, data, now, jitter)

\* SortByScheduledTime leaving the list in the order of the records
Unsorted(s) == s

\* departures.sort(key=lambda x: x['scheduled_time']): a stable sort
RECURSIVE InsertByTime(_, _)
InsertByTime(sorted, d) ==
    IF sorted = <<>> THEN <<d>>
    ELSE IF HMLess(d.scheduled_time, sorted[Len(sorted)].scheduled_time)
    THEN Append(InsertByTime(SubSeq(sorted, 1, Len(sorted) - 1), d),
                sorted[Len(sorted)])
    ELSE Append(sorted, d)

RECURSIVE SortByScheduledTime(_)
SortByScheduledTime(s) ==
    IF s = <<>> THEN <<>>
    ELSE InsertByTime(SortByScheduledTime(SubSeq(s, 1, Len(s) - 1)), s[Len(s)])

\* the state of the loop at its end, for a payload that reaches the loop
FetchCounts(up, now, jitter) == FetchLoop(FetchStart, 1, up.data, now, jitter)

\* decoded payloads the try block cannot work through: a JSON array where
\* the object is expected (data.keys()), 'departures': null
\* (len(raw_departures)), an element of departures that is no object
\* (departure.get)
MalformedShapes == {"list", "departures_null", "bad_record"}

\* whether the try block is left through `except Exception`
FetchFails(up) == up.kind # "ok" \/ up.data.shape \in MalformedShapes

fetch_departures_from_ptv(up, now, jitter) ==
    IF FetchFails(up) THEN <<>>
    ELSE IF up.data.shape = "falsy" THEN <<>>
    ELSE SortByScheduledTime(FetchCounts(up, now, jitter).departures)

(***************************************************************************)
(* Upstream responses.                                                     *)
(***************************************************************************)
\* one raw record of the payload's `departures`
Raw(platform, direction, route, run, scheduled, estimated) ==
    [platform_number |-> platform, direction_id |-> direction,
     route_id |-> route, run_id |-> run,
     scheduled_departure_utc |-> scheduled,
     estimated_departure_utc |-> estimated,
     at_platform |-> Missing, disruption_ids |-> <<>>]

\* the payload's `runs`: run 7 has a destination and a vehicle descriptor,
\* run 8 a vehicle_descriptor that is null
PayloadRuns ==
    ("7" :> [destination_name |-> "Flinders Street",
             vehicle_descriptor |-> [t |-> "dict",
                                     description |-> StrV("6 Car Xtrapolis")]]) @@
    ("8" :> [destination_name |-> "Flinders Street",
             vehicle_descriptor |-> [t |-> "none", description |-> Missing]])

Payload(shape, raw) ==
    [shape |-> shape, departures |-> raw, routes |-> EmptyMap,
     directions |-> EmptyMap, runs |-> PayloadRuns, disruptions |-> EmptyMap]

\* requests.get raises (timeout, unreachable host); raise_for_status raises
\* (non-2xx); response.json() raises (malformed body)
TransportErrors == {"timeout", "http_error"}
FailedUpstreams ==
    {[kind |-> k, data |-> Payload("falsy", <<>>)] :
        k \in TransportErrors \cup {"bad_json"}}

OkUpstream(raw) == [kind |-> "ok", data |-> Payload("dict", raw)]

\* the responses the refresh loop meets: a timeout, a non-2xx status, two
\* payloads with departures of platform 1 and one with none
LoopUpstreams ==
    {[kind |-> k, data |-> Payload("falsy", <<>>)] : k \in TransportErrors}
    \cup
    { OkUpstream(<<Raw(StrV("1"), IntV("1"), IntV("2"), IntV("7"),
                       StrV("2024-01-01T21:15:00Z"), Missing),
                   Raw(IntV("1"), IntV("1"), IntV("2"), Missing,
                       StrV("2024-01-01T20:05:00Z"), Missing)>>),
      OkUpstream(<<Raw(StrV("1"), IntV("1"), IntV("2"), Missing,
                       StrV("2024-01-01T00:00:00Z"), Missing)>>),
      OkUpstream(<<Raw(StrV("2"), IntV("1"), IntV("2"), Missing,
                       StrV("2024-01-01T00:00:00Z"), Missing)>>) }

\* random.randint(15, 120), at its two ends
Jitters == {JitterMin, JitterMax}

\* the records for which random.randint is called: those of platform 1
\* without a scheduled time
JitterPositions(up) ==
    { i \in 1..Len(up.data.departures) :
        /\ IsPlatform1(up.data.departures[i])
        /\ ~Truthy(up.data.departures[i].scheduled_departure_utc) }

(***************************************************************************)
(* State.                                                                  *)
(***************************************************************************)
Readers == 1..MaxReaders
Cycles == 1..MaxCycles

VARIABLES
    cache,        \* the module-level dict: departures, last_updated, updating
    pc,           \* where update_cache is
    departures,   \* update_cache's local: the Fetcher's last result
    sleepSecs,    \* the argument of the last time.sleep
    now,          \* get_melbourne_time(), in minutes
    cycle,        \* history: the number of the cycle (0 before the first)
    upstream,     \* history: how the upstream call of the cycle ended
    raisedIn,     \* history: whether an exception reached the handler in the cycle
    before,       \* history: departures and last_updated when the cycle began
    fetched,      \* history: the Fetcher's result of each cycle
    depCycle,     \* history: the cycle that wrote cache['departures']
    luCycle,      \* history: the cycle that wrote cache['last_updated']
    rpc,          \* where each get_departures handler is
    resp,         \* each handler's response_data
    rDepCycle,    \* history: the cycle that wrote the list a handler read
    rLuCycle,     \* history: the cycle that wrote the timestamp a handler read
    rConc,        \* history: the last cycle in flight while a handler ran
    fpc,          \* where a run of the Fetcher alone is
    fup,          \* its upstream response
    fi,           \* its position in raw_departures
    fst,          \* its list and counters
    fresult,      \* what it returned
    npc,          \* where a call of the Normalizer alone is
    nout,         \* what that call returned
    spc,          \* where a run of scrape_departures (scraper.py) is
    sattempt,     \* its loop variable `attempt`
    sdriver,      \* its local `driver`: None, or <<n>> for browser session n
    sopen,        \* history: the sessions opened and not yet quit
    sfirst,       \* history: the sorted list of the first attempt with one
    spending,     \* the return statement waiting for the finally block
    sresult,      \* what it returned
    scache,       \* cache['departures'] of scraper.py
    slu,          \* cache['last_updated'] of scraper.py
    scycle,       \* history: the number of scraper.py's refresh cycle
    main,         \* where the main thread of ptv_api_service.py is
    creds,        \* the environment's PTV_DEV_ID and PTV_API_KEY
    checks        \* history: how often the credentials were checked

loopVars == <<cache, pc, departures, sleepSecs, now, cycle, upstream, raisedIn,
              before, fetched, depCycle, luCycle>>
readerVars == <<rpc, resp, rDepCycle, rLuCycle, rConc>>
fetchVars == <<fpc, fup, fi, fst, fresult>>
normVars == <<npc, nout>>
scrapeVars == <<spc, sattempt, sdriver, sopen, sfirst, spending, sresult,
                scache, slu, scycle>>
startVars == <<main, creds, checks>>
auxVars == <<normVars, scrapeVars, startVars>>
vars == <<loopVars, readerVars, fetchVars, auxVars>>

None == <<>>

NoResponse == [departures |-> <<>>, lastUpdated |-> None, updating |-> FALSE]

ServiceInit ==
    /\ cache = [departures |-> <<>>, last_updated |-> None, updating |-> FALSE]
    /\ pc = "top"
    /\ departures = <<>>
    /\ sleepSecs = 0
    /\ now = StartMinute
    /\ cycle = 0
    /\ upstream = "none"
    /\ raisedIn = FALSE
    /\ before = [departures |-> <<>>, last_updated |-> None]
    /\ fetched = [c \in Cycles |-> <<>>]
    /\ depCycle = 0
    /\ luCycle = 0
    /\ rpc = [r \in Readers |-> "idle"]
    /\ resp = [r \in Readers |-> NoResponse]
    /\ rDepCycle = [r \in Readers |-> 0]
    /\ rLuCycle = [r \in Readers |-> 0]
    /\ rConc = [r \in Readers |-> 0]

FetcherIdle ==
    /\ fpc = "idle"
    /\ fup = [kind |-> "timeout", data |-> Payload("falsy", <<>>)]
    /\ fi = 0
    /\ fst = FetchStart
    /\ fresult = <<>>

\* no call of the Normalizer alone is under way
NormalizerIdle ==
    /\ npc = "idle"
    /\ nout = None

\* `return` has not been reached in the try block
NoReturn == [returns |-> FALSE, value |-> <<>>]

\* no run of scrape_departures is under way
ScraperIdle ==
    /\ spc = "idle"
    /\ sattempt = 0
    /\ sdriver = None
    /\ sopen = {}
    /\ sfirst = <<>>
    /\ spending = NoReturn
    /\ sresult = <<>>
    /\ scache = <<>>
    /\ slu = None
    /\ scycle = 0

\* PTV_DEV_ID and PTV_API_KEY as os.environ.get(name, "") gives them: an
\* unset variable reads as the empty string
CredentialValues == {"", "3000123"}
Credentials == [dev_id : CredentialValues, api_key : CredentialValues]

\* the process has started with both credentials set and serves requests
ProcessServing ==
    /\ main = "serving"
    /\ creds = [dev_id |-> "3000123", api_key |-> "3000123"]
    /\ checks = 1

AuxIdle == NormalizerIdle /\ ScraperIdle /\ ProcessServing

Init == ServiceInit /\ FetcherIdle /\ AuxIdle

(***************************************************************************)
(* update_cache: the refresh loop.                                         *)
(***************************************************************************)
\* the handlers that are between their first and their last read
Reading(r) == rpc[r] \in {"read_last_updated", "read_updating"}

\* cache['updating'] = True
SetUpdating ==
    /\ pc = "top"
    /\ cycle < MaxCycles
    /\ cache' = [cache EXCEPT !.updating = TRUE]
    /\ cycle' = cycle + 1
    /\ rConc' = [r \in Readers |-> IF Reading(r) THEN cycle + 1 ELSE rConc[r]]
    /\ pc' = "fetch"
    /\ UNCHANGED <<departures, sleepSecs, now, upstream, raisedIn, before,
                   fetched, depCycle, luCycle, rpc, resp, rDepCycle, rLuCycle,
                   fetchVars, auxVars>>

\* Fetch without the test `if departures:`: an empty result is stored too
FetchStoresAlways ==
    /\ pc = "fetch"
    /\ \E up \in LoopUpstreams :
          \E jitter \in [JitterPositions(up) -> Jitters] :
              /\ departures' = fetch_departures_from_ptv(up, now, jitter)
              /\ upstream' = up.kind
    /\ fetched' = [fetched EXCEPT ![cycle] = departures']
    /\ pc' = "store_departures"
    /\ UNCHANGED <<cache, sleepSecs, now, cycle, raisedIn, before, depCycle,
                   luCycle, readerVars, fetchVars, auxVars>>

\* departures = fetch_departures_from_ptv(); if departures:
Fetch ==
    /\ pc = "fetch"
    /\ \E up \in LoopUpstreams :
          \E jitter \in [JitterPositions(up) -> Jitters] :
              /\ departures' = fetch_departures_from_ptv(up, now, jitter)
              /\ upstream' = up.kind
    /\ fetched' = [fetched EXCEPT ![cycle] = departures']
    /\ pc' = IF departures' # <<>> THEN "store_departures" ELSE "clear"
    /\ UNCHANGED <<cache, sleepSecs, now, cycle, raisedIn, before, depCycle,
                   luCycle, readerVars, fetchVars, auxVars>>

\* StoreDepartures extending the cached list in place instead of replacing it
StoreDeparturesExtends ==
    /\ pc = "store_departures"
    /\ cache' = [cache EXCEPT !.departures = @ \o departures]
    /\ depCycle' = cycle
    /\ pc' = "store_last_updated"
    /\ UNCHANGED <<departures, sleepSecs, now, cycle, upstream, raisedIn, before,
                   fetched, luCycle, readerVars, fetchVars, auxVars>>

\* StoreDepartures with the assignment of the list moved behind the one of the
\* timestamp: the timestamp is written with the list not yet in place
StoreDeparturesAfterTimestamp ==
    /\ pc = "store_departures"
    /\ pc' = "store_last_updated"
    /\ UNCHANGED <<cache, departures, sleepSecs, now, cycle, upstream, raisedIn,
                   before, fetched, depCycle, luCycle, readerVars, fetchVars, auxVars>>

\* cache['departures'] = departures
StoreDepartures ==
    /\ pc = "store_departures"
    /\ cache' = [cache EXCEPT !.departures = departures]
    /\ depCycle' = cycle
    /\ pc' = "store_last_updated"
    /\ UNCHANGED <<departures, sleepSecs, now, cycle, upstream, raisedIn, before,
                   fetched, luCycle, readerVars, fetchVars, auxVars>>

\* cache['last_updated'] = get_melbourne_time().strftime("%H:%M")
StoreLastUpdated ==
    /\ pc = "store_last_updated"
    /\ cache' = [cache EXCEPT !.last_updated = StrfHM(now)]
    /\ luCycle' = cycle
    /\ pc' = "dump"
    /\ UNCHANGED <<departures, sleepSecs, now, cycle, upstream, raisedIn, before,
                   fetched, depCycle, readerVars, fetchVars, auxVars>>

\* print_timetable(departures); save_to_json(departures): the directory or
\* the file may fail to be written, and the exception reaches the handler
Dump ==
    /\ pc = "dump"
    /\ \E written \in BOOLEAN :
          /\ pc' = IF written THEN "clear" ELSE "except"
          /\ raisedIn' = ~written
    /\ UNCHANGED <<cache, departures, sleepSecs, now, cycle, upstream, before,
                   fetched, depCycle, luCycle, readerVars, fetchVars, auxVars>>

\* cache['updating'] = False; time.sleep(300)
ClearUpdating ==
    /\ pc = "clear"
    /\ cache' = [cache EXCEPT !.updating = FALSE]
    /\ sleepSecs' = SleepNormal
    /\ pc' = "sleep"
    /\ UNCHANGED <<departures, now, cycle, upstream, raisedIn, before, fetched,
                   depCycle, luCycle, readerVars, fetchVars, auxVars>>

\* HandleException without cache['updating'] = False
HandleExceptionKeepsUpdating ==
    /\ pc = "except"
    /\ sleepSecs' = SleepRetry
    /\ pc' = "sleep"
    /\ UNCHANGED <<cache, departures, now, cycle, upstream, raisedIn, before,
                   fetched, depCycle, luCycle, readerVars, fetchVars, auxVars>>

\* HandleException sleeping as long as a cycle that ran through
HandleExceptionSleepsNormal ==
    /\ pc = "except"
    /\ cache' = [cache EXCEPT !.updating = FALSE]
    /\ sleepSecs' = SleepNormal
    /\ pc' = "sleep"
    /\ UNCHANGED <<departures, now, cycle, upstream, raisedIn, before, fetched,
                   depCycle, luCycle, readerVars, fetchVars, auxVars>>

\* HandleException with the try statement around the while loop: the
\* exception ends the loop
HandleExceptionStops ==
    /\ pc = "except"
    /\ cache' = [cache EXCEPT !.updating = FALSE]
    /\ sleepSecs' = SleepRetry
    /\ pc' = "stopped"
    /\ UNCHANGED <<departures, now, cycle, upstream, raisedIn, before, fetched,
                   depCycle, luCycle, readerVars, fetchVars, auxVars>>

\* HandleException putting the empty list back into the cache
HandleExceptionClearsCache ==
    /\ pc = "except"
    /\ cache' = [cache EXCEPT !.updating = FALSE, !.departures = <<>>]
    /\ sleepSecs' = SleepRetry
    /\ pc' = "sleep"
    /\ UNCHANGED <<departures, now, cycle, upstream, raisedIn, before, fetched,
                   depCycle, luCycle, readerVars, fetchVars, auxVars>>

\* except Exception: cache['updating'] = False; time.sleep(60)
HandleException ==
    /\ pc = "except"
    /\ cache' = [cache EXCEPT !.updating = FALSE]
    /\ sleepSecs' = SleepRetry
    /\ pc' = "sleep"
    /\ UNCHANGED <<departures, now, cycle, upstream, raisedIn, before, fetched,
                   depCycle, luCycle, readerVars, fetchVars, auxVars>>

\* the cycles whose list is in the cache or with a handler
Referenced(c) ==
    \/ c = depCycle
    \/ \E r \in Readers : c = rDepCycle[r] \/ c = rConc[r]

\* time.sleep returns; while True.  The cycle is over: the history of the
\* next one begins, and the results of the cycles nothing refers to any more
\* are dropped from the history.
Sleep ==
    /\ pc = "sleep"
    /\ now' = now + sleepSecs \div 60
    /\ pc' = "top"
    /\ upstream' = "none"
    /\ raisedIn' = FALSE
    /\ before' = [departures |-> cache.departures,
                  last_updated |-> cache.last_updated]
    /\ fetched' = [c \in Cycles |-> IF Referenced(c) THEN fetched[c] ELSE <<>>]
    /\ UNCHANGED <<cache, departures, sleepSecs, cycle, depCycle, luCycle,
                   readerVars, fetchVars, auxVars>>

update_cache ==
    \/ SetUpdating
    \/ Fetch
    \/ StoreDepartures
    \/ StoreLastUpdated
    \/ Dump
    \/ ClearUpdating
    \/ HandleException
    \/ Sleep

(***************************************************************************)
(* get_departures: GET /api/departures.  The dict display reads the three  *)
(* keys of the cache one after the other.                                  *)
(***************************************************************************)
\* the handler is entered; 'departures': cache['departures']
ReadDepartures(r) ==
    /\ rpc[r] = "idle"
    /\ resp' = [resp EXCEPT ![r].departures = cache.departures]
    /\ rDepCycle' = [rDepCycle EXCEPT ![r] = depCycle]
    /\ rConc' = [rConc EXCEPT ![r] = IF cache.updating THEN cycle ELSE 0]
    /\ rpc' = [rpc EXCEPT ![r] = "read_last_updated"]
    /\ UNCHANGED <<loopVars, rLuCycle, fetchVars, auxVars>>

\* 'lastUpdated': cache['last_updated']
ReadLastUpdated(r) ==
    /\ rpc[r] = "read_last_updated"
    /\ resp' = [resp EXCEPT ![r].lastUpdated = cache.last_updated]
    /\ rLuCycle' = [rLuCycle EXCEPT ![r] = luCycle]
    /\ rpc' = [rpc EXCEPT ![r] = "read_updating"]
    /\ UNCHANGED <<loopVars, rDepCycle, rConc, fetchVars, auxVars>>

\* 'updating': cache['updating']
ReadUpdating(r) ==
    /\ rpc[r] = "read_updating"
    /\ resp' = [resp EXCEPT ![r].updating = cache.updating]
    /\ rpc' = [rpc EXCEPT ![r] = "respond"]
    /\ UNCHANGED <<loopVars, rDepCycle, rLuCycle, rConc, fetchVars, auxVars>>

\* return jsonify(response_data)
Respond(r) ==
    /\ rpc[r] = "respond"
    /\ rpc' = [rpc EXCEPT ![r] = "idle"]
    /\ resp' = [resp EXCEPT ![r] = NoResponse]
    /\ rDepCycle' = [rDepCycle EXCEPT ![r] = 0]
    /\ rLuCycle' = [rLuCycle EXCEPT ![r] = 0]
    /\ rConc' = [rConc EXCEPT ![r] = 0]
    /\ UNCHANGED <<loopVars, fetchVars, auxVars>>

get_departures(r) ==
    \/ ReadDepartures(r)
    \/ ReadLastUpdated(r)
    \/ ReadUpdating(r)
    \/ Respond(r)

Next ==
    \/ update_cache
    \/ \E r \in Readers : get_departures(r)

Spec == Init /\ [][Next]_vars

(***************************************************************************)
(* A run of the Fetcher alone, record by record, on the payloads of        *)
(* FetchUpstreams.                                                         *)
(***************************************************************************)
\* platform_number: "1", 1, "2", null, absent
FetchPlatforms == {StrV("1"), IntV("1"), StrV("2"), NoneV, Missing}
\* scheduled_departure_utc: two timestamps, absent, and a text that is no
\* timestamp
FetchScheduled ==
    {StrV("2024-01-01T21:15:00Z"), StrV("2024-01-01T20:05:00Z"), Missing,
     StrV("soon")}
\* run_id: absent, or a run whose vehicle_descriptor is null
FetchRuns == {Missing, IntV("8")}

FetchRawRecords ==
    { Raw(p, IntV("1"), IntV("2"), run, sch, Missing) :
        p \in FetchPlatforms, run \in FetchRuns, sch \in FetchScheduled }

RECURSIVE SeqsUpTo(_, _)
SeqsUpTo(S, n) ==
    IF n = 0 THEN {<<>>}
    ELSE LET shorter == SeqsUpTo(S, n - 1)
         IN  shorter \cup { Append(q, x) : q \in shorter, x \in S }

FetchUpstreams ==
    FailedUpstreams
    \cup {[kind |-> "ok", data |-> Payload(shape, <<>>)] :
             shape \in {"falsy"} \cup MalformedShapes}
    \cup { OkUpstream(raw) : raw \in SeqsUpTo(FetchRawRecords, MaxRaw) }

FetchInit ==
    /\ ServiceInit
    /\ fpc = "request"
    /\ fup \in FetchUpstreams
    /\ fi = 0
    /\ fst = FetchStart
    /\ fresult = <<>>
    /\ AuxIdle

\* FetchRequest without the try block around it
FetchRequestRaises ==
    /\ fpc = "request"
    /\ IF FetchFails(fup)
       THEN /\ fpc' = "raised"
            /\ UNCHANGED <<fi, fst, fresult>>
       ELSE IF fup.data.shape = "falsy"
       THEN /\ fresult' = <<>>
            /\ fpc' = "returned"
            /\ UNCHANGED <<fi, fst>>
       ELSE /\ fi' = 1
            /\ fst' = FetchStart
            /\ fpc' = "loop"
            /\ UNCHANGED fresult
    /\ UNCHANGED <<fup, loopVars, readerVars, auxVars>>

\* requests.get, raise_for_status, response.json(), `if not data`; a failure
\* is caught by `except Exception`, which returns []
FetchRequest ==
    /\ fpc = "request"
    /\ IF FetchFails(fup) \/ fup.data.shape = "falsy"
       THEN /\ fresult' = <<>>
            /\ fpc' = "returned"
            /\ UNCHANGED <<fi, fst>>
       ELSE /\ fi' = 1
            /\ fst' = FetchStart
            /\ fpc' = "loop"
            /\ UNCHANGED fresult
    /\ UNCHANGED <<fup, loopVars, readerVars, auxVars>>

\* one pass of `for departure in raw_departures`
FetchRecord ==
    /\ fpc = "loop"
    /\ fi <= Len(fup.data.departures)
    /\ \E jitter \in Jitters :
          fst' = ProcessDeparture(fst, fup.data.departures[fi], fup.data, now,
                                  jitter)
    /\ fi' = fi + 1
    /\ UNCHANGED <<fpc, fup, fresult, loopVars, readerVars, auxVars>>

\* departures.sort(...); return departures
FetchReturn ==
    /\ fpc = "loop"
    /\ fi > Len(fup.data.departures)
    /\ fresult' = SortByScheduledTime(fst.departures)
    /\ fpc' = "returned"
    /\ UNCHANGED <<fup, fi, fst, loopVars, readerVars, auxVars>>

FetchNext == FetchRequest \/ FetchRecord \/ FetchReturn

FetchSpec == FetchInit /\ [][FetchNext]_vars

(***************************************************************************)
(* The Normalizer alone, and the Fetcher on the same record: one raw       *)
(* record with the payload's lookup mappings, parse_departure_data called  *)
(* on it directly and fetch_departures_from_ptv run on the payload.        *)
(***************************************************************************)
NormPlatforms == {StrV("1"), IntV("1"), StrV("2")}
NormDirectionIds == {IntV("1"), StrV("1"), IntV("2"), Missing}
NormRouteIds == {IntV("1"), IntV("2")}
NormRunIds == {Missing, IntV("7"), IntV("8"), IntV("9")}
\* scheduled_departure_utc: a timestamp, absent, null, empty, not a timestamp
NormScheduled ==
    {StrV("2024-01-01T21:15:00Z"), Missing, NoneV, StrV(""), StrV("soon")}
\* estimated_departure_utc: absent, a timestamp, not a timestamp
NormEstimated == {Missing, StrV("2024-01-01T20:05:00Z"), StrV("late")}

NormRawRecords ==
    { Raw(p, d, rt, run, sch, est) :
        p \in NormPlatforms, d \in NormDirectionIds, rt \in NormRouteIds,
        run \in NormRunIds, sch \in NormScheduled, est \in NormEstimated }

\* the payload's `routes` and `directions`: empty, or with entries
NormRoutes ==
    { EmptyMap,
      ("1" :> [route_name |-> "Alamein"]) @@ ("2" :> [route_name |-> "Belgrave"]) }
NormDirections ==
    { EmptyMap,
      ("1" :> [direction_name |-> "City (Flinders Street)"]),
      ("2" :> [direction_name |-> "Alamein"]) }
\* the payload's `runs`: run 9 has no destination_name
NormRuns ==
    PayloadRuns @@
    ("9" :> [vehicle_descriptor |-> [t |-> "dict",
                                     description |-> StrV("3 Car Comeng")]])

NormUpstreams ==
    { [kind |-> "ok",
       data |-> [shape |-> "dict", departures |-> <<raw>>, routes |-> routes,
                 directions |-> directions, runs |-> NormRuns,
                 disruptions |-> EmptyMap]] :
        raw \in NormRawRecords, routes \in NormRoutes,
        directions \in NormDirections }

NormInit ==
    /\ ServiceInit
    /\ fpc = "request"
    /\ fup \in NormUpstreams
    /\ fi = 0
    /\ fst = FetchStart
    /\ fresult = <<>>
    /\ npc = "call"
    /\ nout = None
    /\ ScraperIdle
    /\ ProcessServing

\* parse_departure_data(departure, routes, directions, runs, disruptions)
Normalize ==
    /\ npc = "call"
    /\ LET r == parse_departure_data(fup.data.departures[1], fup.data.routes,
                    fup.data.directions, fup.data.runs, fup.data.disruptions,
                    now)
       IN  /\ npc' = IF r.raised THEN "raised" ELSE "returned"
           /\ nout' = IF r.raised THEN None ELSE r.value
    /\ UNCHANGED <<loopVars, readerVars, fetchVars, scrapeVars, startVars>>

NormNext == Normalize \/ FetchNext

NormSpec == NormInit /\ [][NormNext]_vars

(***************************************************************************)
(* scraper.py: scrape_departures, the scrape variant of the Fetcher, and   *)
(* the store of its result by scraper.py's update_cache.  A page is the    *)
(* sequence of its departure cards; the text of a card's time is the pair  *)
(* <<hour, minute>>, as for the API variant.                               *)
(***************************************************************************)
\* max_retries = 3
MaxRetries == 3

\* the cards of a page: a time and a title, or a card without the time element
ScrapeCards ==
    { [time |-> t, title |-> ti, broken |-> FALSE] :
        t \in {<<8, 15>>, <<7, 5>>}, ti \in {"Flinders Street", "Alamein"} }
    \cup {[time |-> NoTime, title |-> "", broken |-> TRUE]}

ScrapePages == SeqsUpTo(ScrapeCards, MaxRaw)

\* how one attempt ends: setup_driver raises, driver.get raises, the wait
\* times out, or the page is there and print_timetable and save_to_json
\* return (dumped) or raise
ScrapeOutcomes ==
    {[kind |-> k, cards |-> <<>>, dumped |-> FALSE] :
        k \in {"setup_fails", "get_fails", "wait_timeout"}}
    \cup {[kind |-> "page", cards |-> p, dumped |-> d] :
             p \in ScrapePages, d \in BOOLEAN}

\* extract_departure_data(card) for the cards it returns a departure for
ExtractDeparture(card, at) ==
    [scheduled_time |-> card.time, live_time |-> NoTime,
     destination |-> card.title, scraped_at |-> StrfHM(at)]

\* the loop over the cards: a card that raises is skipped, an Alamein card
\* gives None
ExtractCards(cards, at) ==
    LET kept == SelectSeq(cards, LAMBDA c : ~c.broken /\ c.title # "Alamein")
    IN  [i \in 1..Len(kept) |-> ExtractDeparture(kept[i], at)]

\* sorted(departures, key=lambda x: x['scheduled_time']): a stable sort
Sorted(deps) == SortByScheduledTime(deps)

ScrapeInit ==
    /\ ServiceInit
    /\ FetcherIdle
    /\ NormalizerIdle
    /\ ProcessServing
    /\ spc = "attempt"
    /\ sattempt = 0
    /\ sdriver = None
    /\ sopen = {}
    /\ sfirst = <<>>
    /\ spending = NoReturn
    /\ sresult = <<>>
    /\ scache = <<>>
    /\ slu = None
    /\ scycle = 1

\* the try block of one attempt
ScrapeAttempt ==
    /\ spc = "attempt"
    /\ \E o \in ScrapeOutcomes :
          LET extracted == ExtractCards(o.cards, now)
          IN  /\ sdriver' = IF o.kind = "setup_fails" THEN sdriver
                            ELSE <<sattempt + 1>>
              /\ sopen' = IF o.kind = "setup_fails" THEN sopen
                          ELSE sopen \cup {sattempt + 1}
              /\ sfirst' = IF sfirst = <<>> THEN Sorted(extracted) ELSE sfirst
              /\ spending' =
                     IF o.kind = "page" /\ extracted # <<>> /\ o.dumped
                     THEN [returns |-> TRUE, value |-> Sorted(extracted)]
                     ELSE NoReturn
    /\ spc' = "finally"
    /\ UNCHANGED <<sattempt, sresult, scache, slu, scycle, loopVars, readerVars,
                   fetchVars, normVars, startVars>>

\* the finally block: driver.quit() if driver, whatever it raises being
\* swallowed; then the pending return, the next attempt, or `return []` after
\* the last one
ScrapeFinally ==
    /\ spc = "finally"
    /\ sopen' = IF sdriver = None THEN sopen ELSE sopen \ {sdriver[1]}
    /\ IF spending.returns
       THEN /\ sresult' = spending.value
            /\ spc' = "returned"
            /\ UNCHANGED sattempt
       ELSE /\ sattempt' = sattempt + 1
            /\ sresult' = <<>>
            /\ spc' = IF sattempt + 1 < MaxRetries THEN "attempt" ELSE "returned"
    /\ spending' = NoReturn
    /\ UNCHANGED <<sdriver, sfirst, scache, slu, scycle, loopVars, readerVars,
                   fetchVars, normVars, startVars>>

\* update_cache of scraper.py: `if departures:` cache['departures'] =
\* departures; cache['last_updated'] = the local time
ScrapeStore ==
    /\ spc = "returned"
    /\ scache' = IF sresult # <<>> THEN sresult ELSE scache
    /\ slu' = IF sresult # <<>> THEN StrfHM(now) ELSE slu
    /\ spc' = "stored"
    /\ UNCHANGED <<sattempt, sdriver, sopen, sfirst, spending, sresult, scycle,
                   loopVars, readerVars, fetchVars, normVars, startVars>>

ScrapeNext == ScrapeAttempt \/ ScrapeFinally \/ ScrapeStore

ScrapeSpec == ScrapeInit /\ [][ScrapeNext]_vars

\* update_cache of scraper.py after its sleep: the next scrape_departures()
ScrapeAgain ==
    /\ spc = "stored"
    /\ scycle < MaxCycles
    /\ scycle' = scycle + 1
    /\ spc' = "attempt"
    /\ sattempt' = 0
    /\ sdriver' = None
    /\ sfirst' = <<>>
    /\ spending' = NoReturn
    /\ sresult' = <<>>
    /\ UNCHANGED <<sopen, scache, slu, loopVars, readerVars, fetchVars, normVars,
                   startVars>>

(***************************************************************************)
(* The cache of either service over its refresh cycles: the refresh loop   *)
(* of ptv_api_service.py with one request handler, or the one of           *)
(* scraper.py.                                                             *)
(***************************************************************************)
CacheInit == Init \/ ScrapeInit

\* the steps of the service that was started
ApiServiceStep == spc = "idle" /\ (update_cache \/ get_departures(1))

CacheNext == ApiServiceStep \/ ScrapeNext \/ ScrapeAgain

CacheSpec == CacheInit /\ [][CacheNext]_vars

(***************************************************************************)
(* The two variants of the Fetcher, one of them run from its start.        *)
(***************************************************************************)
VariantsInit == FetchInit \/ ScrapeInit

VariantsNext == FetchNext \/ ScrapeNext

VariantsSpec == VariantsInit /\ [][VariantsNext]_vars

(***************************************************************************)
(* Startup of ptv_api_service.py run as a script: the credentials check at *)
(* import, start_background_thread(), app.run(); then the refresh loop and *)
(* one request handler as in Spec.                                         *)
(***************************************************************************)
StartInit ==
    /\ ServiceInit
    /\ FetcherIdle
    /\ NormalizerIdle
    /\ ScraperIdle
    /\ main = "import"
    /\ creds \in Credentials
    /\ checks = 0

\* CheckCredentials looking at DEV_ID only
CheckCredentialsDevIdOnly ==
    /\ main = "import"
    /\ checks' = checks + 1
    /\ main' = IF creds.dev_id = "" THEN "exited" ELSE "loaded"
    /\ UNCHANGED <<creds, loopVars, readerVars, fetchVars, normVars, scrapeVars>>

\* if not DEV_ID or not API_KEY: sys.exit(1)
CheckCredentials ==
    /\ main = "import"
    /\ checks' = checks + 1
    /\ main' = IF creds.dev_id = "" \/ creds.api_key = "" THEN "exited"
               ELSE "loaded"
    /\ UNCHANGED <<creds, loopVars, readerVars, fetchVars, normVars, scrapeVars>>

\* background_thread = start_background_thread()
StartThread ==
    /\ main = "loaded"
    /\ main' = "thread_started"
    /\ UNCHANGED <<creds, checks, loopVars, readerVars, fetchVars, normVars,
                   scrapeVars>>

\* app.run(host='0.0.0.0', port=port)
Serve ==
    /\ main = "thread_started"
    /\ main' = "serving"
    /\ UNCHANGED <<creds, checks, loopVars, readerVars, fetchVars, normVars,
                   scrapeVars>>

\* the daemon thread runs once it is started, requests are handled once the
\* server runs
ThreadStep == main \in {"thread_started", "serving"} /\ update_cache
RequestStep == main = "serving" /\ get_departures(1)

StartNext == CheckCredentials \/ StartThread \/ Serve \/ ThreadStep \/ RequestStep

StartSpec == StartInit /\ [][StartNext]_vars

(***************************************************************************)
(* The refresh loop beside one handler, under the scheduling the service   *)
(* runs with: the daemon thread and the handler's thread keep being        *)
(* scheduled, and every Fetcher call and every sleep returns.  Handlers    *)
(* only read the cache, so one of them stands for all.                     *)
(***************************************************************************)
ReadSteps(r) == ReadLastUpdated(r) \/ ReadUpdating(r) \/ Respond(r)

LiveNext ==
    \/ update_cache
    \/ get_departures(1)

LiveSpec ==
    /\ Init
    /\ [][LiveNext]_vars
    /\ WF_vars(update_cache)
    /\ WF_vars(ReadSteps(1))

(***************************************************************************)
(* Properties of the cache and of the refresh loop.                        *)
(***************************************************************************)
\* a handler whose response_data is complete
Responding(r) == rpc[r] = "respond"

\* whether a list is in ascending order of scheduled_time
IsSorted(s) ==
    \A i \in 1..Len(s) - 1 : ~HMLess(s[i + 1].scheduled_time, s[i].scheduled_time)

\* the list cycle c wrote to the cache (the initial list for c = 0)
ListOfCycle(c) == IF c = 0 THEN <<>> ELSE fetched[c]

\* C1: a response never carries a lastUpdated written by one refresh cycle
\* together with a departures list that the same cycle did not write.
C1_ResponseTimestampMatchesList ==
    \A r \in Readers :
        (Responding(r) /\ rLuCycle[r] # 0) => rDepCycle[r] = rLuCycle[r]

\* C2: a handler that ran while a cycle was in flight, the cycle having
\* replaced the cache, never answers updating == false with a lastUpdated
\* that was written before that cycle.
C2_NotUpdatingImpliesFreshTimestamp ==
    \A r \in Readers :
        ( /\ Responding(r)
          /\ resp[r].updating = FALSE
          /\ rConc[r] # 0
          /\ ListOfCycle(rConc[r]) # <<>>
          /\ rLuCycle[r] # 0 )
        => rLuCycle[r] >= rConc[r]

\* C3: the cached list, and the list of every response, is the initial empty
\* list or the complete sorted result of one single fetch cycle.
C3_ListIsOneCompleteSnapshot ==
    /\ cache.departures = ListOfCycle(depCycle)
    /\ IsSorted(cache.departures)
    /\ \A r \in Readers :
          rpc[r] \in {"read_last_updated", "read_updating", "respond"} =>
              /\ resp[r].departures = ListOfCycle(rDepCycle[r])
              /\ IsSorted(resp[r].departures)

\* a later cycle has stored its list while the timestamp is still the one of
\* an earlier cycle, and a handler has read the list
C3_Witness ==
    /\ depCycle = 2
    /\ luCycle = 1
    /\ \E r \in Readers :
          /\ rpc[r] = "read_last_updated"
          /\ rDepCycle[r] = 2
          /\ Len(resp[r].departures) = 2

\* C4 as stated: whenever last_updated holds the timestamp of cycle N,
\* departures holds the list of cycle N; and a cycle with a non-empty result
\* clears updating only with its list and its timestamp in place.
C4_TimestampImpliesSameCycleList ==
    /\ luCycle # 0 => depCycle = luCycle
    /\ (pc = "sleep" /\ departures # <<>>) => (depCycle = cycle /\ luCycle = cycle)

\* C4 amended: the writes of a cycle with a non-empty result come in the order
\* departures, last_updated, updating = false.  The timestamp is never ahead
\* of the list: when last_updated holds the timestamp of cycle N, departures
\* holds the list of cycle N, or the list of the cycle in flight, which is
\* then about to write its timestamp; and a cycle with a non-empty result
\* clears updating only with its list and its timestamp in place.
C4_ListFirstThenTimestampThenFlag ==
    /\ depCycle = luCycle \/ (depCycle = cycle /\ pc = "store_last_updated")
    /\ luCycle <= depCycle
    /\ (cache.updating = FALSE /\ cycle # 0 /\ departures # <<>>) =>
           (depCycle = cycle /\ luCycle = cycle)

\* the second cycle has stored its list and not yet its timestamp
C4_Witness ==
    /\ pc = "store_last_updated"
    /\ depCycle = 2
    /\ luCycle = 1
    /\ cache.departures = fetched[2]

\* C5: updating is true while the Fetcher call is in flight and false
\* whenever the loop sleeps, after the exception handler too.
C5_UpdatingTracksLoop ==
    /\ pc = "fetch" => cache.updating = TRUE
    /\ pc = "sleep" => cache.updating = FALSE

\* the loop sleeps after a cycle that went through the exception handler
C5_Witness == pc = "sleep" /\ raisedIn /\ sleepSecs = SleepRetry

\* C6: a cycle whose Fetcher result is empty leaves cache['departures'] and
\* cache['last_updated'] as they were when the cycle began; as long as every
\* cycle has come back empty, they are the empty list and null.
C6_EmptyResultKeepsSnapshot ==
    /\ (pc \in {"clear", "except", "sleep"} /\ cycle # 0 /\ departures = <<>>) =>
           /\ cache.departures = before.departures
           /\ cache.last_updated = before.last_updated
    /\ (\A c \in Cycles : c <= cycle => fetched[c] = <<>>) =>
           /\ cache.departures = <<>>
           /\ cache.last_updated = None

\* a failed upstream call after a cycle that filled the cache
C6_Witness ==
    /\ pc = "sleep"
    /\ departures = <<>>
    /\ upstream = "timeout"
    /\ cache.departures # <<>>
    /\ cache.last_updated # None

\* C7: after a cycle whose upstream call failed with a transport error the
\* loop sleeps 60 seconds.
C7_TransportErrorRetriesFast ==
    (pc = "sleep" /\ upstream \in TransportErrors) => sleepSecs = SleepRetry

\* C8: the loop sleeps 300 seconds after a cycle in which no exception
\* reached the handler, 60 seconds after one in which an exception did, and
\* never for any other duration.
C8_SleepDurations ==
    pc = "sleep" =>
        sleepSecs = (IF raisedIn THEN SleepRetry ELSE SleepNormal)

\* the loop sleeps 60 seconds after an exception, 300 seconds having been
\* the sleep of the cycle before
C8_Witness ==
    /\ pc = "sleep"
    /\ raisedIn
    /\ sleepSecs = SleepRetry
    /\ cycle = 2
    /\ now = StartMinute + SleepNormal \div 60

\* C9: the loop never stops: whatever a cycle ran into, the next cycle
\* begins (updating is set again), as long as the model lets cycles begin;
\* and every request gets its response.
C9_LoopNeverStops ==
    /\ \A c \in 0..(MaxCycles - 1) : (cycle = c) ~> (cycle = c + 1 /\ cache.updating)
    /\ (rpc[1] = "read_last_updated") ~> Responding(1)

\* a cycle has begun after the exception handler ran
C9_Witness == pc = "fetch" /\ sleepSecs = SleepRetry /\ cycle = 2

(***************************************************************************)
(* Properties of the Fetcher.                                              *)
(***************************************************************************)
\* the platform_number values that str() turns into '1'
PlatformOneValues == {StrV("1"), IntV("1")}

\* the Fetcher has returned from a payload that reached the loop
FetchedPayload == fpc = "returned" /\ fup.kind = "ok" /\ fup.data.shape = "dict"

\* the positions of the raw records of platform 1 that parse
KeptPositions ==
    { i \in 1..Len(fup.data.departures) :
        /\ fup.data.departures[i].platform_number \in PlatformOneValues
        /\ ~BasicRaises(fup.data.departures[i]) }

\* C10: the Fetcher's output holds one record for each raw record whose
\* platform_number is the string "1" or the number 1 and that parses, and
\* none for a record of another platform or without platform_number.
C10_PlatformFilterExact ==
    FetchedPayload =>
        /\ Len(fresult) = Cardinality(KeptPositions)
        /\ fst.platform1_count =
               Cardinality({ i \in 1..Len(fup.data.departures) :
                   fup.data.departures[i].platform_number \in PlatformOneValues })
        /\ fst.platform1_count = Len(fresult) + fst.error_count

\* a numeric platform 1 kept beside a record without platform_number
C10_Witness ==
    /\ FetchedPayload
    /\ Len(fup.data.departures) = 2
    /\ fup.data.departures[1].platform_number = IntV("1")
    /\ fup.data.departures[2].platform_number = Missing
    /\ Len(fresult) = 1
    /\ fresult[1].scheduled_time = <<8, 15>>

(***************************************************************************)
(* The Normalizer and the Fetcher on one record.                           *)
(***************************************************************************)
\* the record handed to the Normalizer, and what its ids look up
NormRecord == fup.data.departures[1]
NormDirectionId == PyStr(Get(NormRecord, "direction_id", StrV("")))
NormRunId == PyStr(Get(NormRecord, "run_id", StrV("")))
NoRunEntry == NormRunId \notin DOMAIN fup.data.runs
NoDirectionEntry == NormDirectionId \notin DOMAIN fup.data.directions
RunNamesDestination ==
    /\ ~NoRunEntry
    /\ "destination_name" \in DOMAIN fup.data.runs[NormRunId]
ScheduledMissing == ~Truthy(NormRecord.scheduled_departure_utc)

\* C12: the destination the Normalizer returns is the run's destination_name,
\* else the direction's direction_name, else "Camberwell" for direction_id
\* "1", else "Unknown"; and for a record of direction_id "1" with no
\* direction entry and no run entry, the Normalizer's result and every record
\* the Fetcher returns have destination "Camberwell" and direction "City",
\* whatever route_id and routes are.
C12_DestinationPriorityChain ==
    /\ npc = "returned" =>
        /\ RunNamesDestination =>
               nout.destination = fup.data.runs[NormRunId].destination_name
        /\ ~RunNamesDestination /\ ~NoDirectionEntry =>
               nout.destination =
                   fup.data.directions[NormDirectionId].direction_name
        /\ ~RunNamesDestination /\ NoDirectionEntry /\ NormDirectionId = "1" =>
               nout.destination = "Camberwell"
        /\ ~RunNamesDestination /\ NoDirectionEntry /\ NormDirectionId # "1" =>
               nout.destination = "Unknown"
    /\ NoRunEntry /\ NoDirectionEntry /\ NormDirectionId = "1" =>
        /\ npc = "returned" =>
               nout.destination = "Camberwell" /\ nout.direction = "City"
        /\ fpc = "returned" =>
               \A i \in 1..Len(fresult) :
                   /\ fresult[i].destination = "Camberwell"
                   /\ fresult[i].direction = "City"

\* direction_id 1, route 2 with an entry in routes, directions without an
\* entry for "1", no run: both give Camberwell and City
C12_Witness ==
    /\ NoRunEntry /\ NoDirectionEntry
    /\ NormRecord.direction_id = IntV("1")
    /\ NormRecord.route_id = IntV("2")
    /\ DOMAIN fup.data.routes # {}
    /\ DOMAIN fup.data.directions # {}
    /\ npc = "returned" /\ nout.destination = "Camberwell"
    /\ fpc = "returned" /\ Len(fresult) = 1
    /\ fresult[1].destination = "Camberwell" /\ fresult[1].direction = "City"

\* C13: parse_departure_data never raises: for every raw record, also one
\* whose scheduled_departure_utc is there and is no timestamp or whose run
\* has a vehicle_descriptor that is no mapping, it returns a departure.
C13_NormalizerNeverRaises == npc # "raised"

\* C14: for a raw record whose scheduled_departure_utc is absent, null or
\* empty, the Normalizer returns a departure with a scheduled_time, and the
\* Fetcher returns the record of platform 1 with a scheduled_time: neither
\* raises, and the record is not dropped.
C14_MissingScheduledTimeFallsBack ==
    ScheduledMissing =>
        /\ npc # "raised"
        /\ npc = "returned" => nout.scheduled_time # None
        /\ fpc = "returned" /\ IsPlatform1(NormRecord) =>
               /\ Len(fresult) = 1
               /\ fresult[1].scheduled_time # None

C20_FallbackTimeIsJittered ==
    fpc = "returned" /\ IsPlatform1(NormRecord) /\ ScheduledMissing =>
        /\ Len(fresult) = 1
        /\ \E j \in JitterMin..JitterMax :
               fresult[1].scheduled_time = StrfHM(now + j)

\* C15: the Fetcher never raises: when the network call, the status check
\* or the JSON decode fails, or the decoded payload is malformed at the top
\* level, fetch_departures_from_ptv returns the empty list, so update_cache's
\* handler is not reached from the fetch step.
C15_FetcherNeverRaises ==
    /\ fpc # "raised"
    /\ fpc = "returned" /\ (fup.kind # "ok" \/ fup.data.shape # "dict") =>
           fresult = <<>>

\* a decoded payload whose departures is null: the empty list is returned
C15_Witness ==
    /\ fpc = "returned"
    /\ fresult = <<>>
    /\ fup.kind = "ok"
    /\ fup.data.shape = "departures_null"

\* the positions of the raw records of platform 1, of those whose scheduled
\* time is no timestamp, and of those whose run has a null vehicle_descriptor
PlatformOnePositions ==
    { i \in 1..Len(fup.data.departures) :
        fup.data.departures[i].platform_number \in PlatformOneValues }
HardErrorPositions ==
    { i \in PlatformOnePositions :
        fup.data.departures[i].scheduled_departure_utc = StrV("soon") }
EnrichmentErrorPositions ==
    { i \in PlatformOnePositions \ HardErrorPositions :
        fup.data.departures[i].run_id = IntV("8") }

\* C16: a failure on one record does not end the loop: a record of platform 1
\* whose enrichment raises is returned as its basic record and counted in
\* enhancement_errors, one whose basic construction raises is dropped and
\* counted in error_count, every other record of platform 1 is returned, and
\* platform1_count is the number of records returned plus error_count.
C16_RecordFailuresStayLocal ==
    FetchedPayload =>
        /\ fst.error_count = Cardinality(HardErrorPositions)
        /\ fst.enhancement_errors = Cardinality(EnrichmentErrorPositions)
        /\ Len(fresult) =
               Cardinality(PlatformOnePositions) - Cardinality(HardErrorPositions)
        /\ Cardinality(PlatformOnePositions) = Len(fresult) + fst.error_count
        /\ \A i \in EnrichmentErrorPositions :
               \E k \in 1..Len(fresult) :
                   /\ fresult[k].vehicle = NoneV
                   /\ fresult[k].platform = StrV("1")
                   /\ fresult[k].scheduled_time \in
                          { BasicDeparture(fup.data.departures[i], "1", now,
                                           j).scheduled_time : j \in Jitters }

\* an unparseable record before one whose enrichment raises: one returned
C16_Witness ==
    /\ FetchedPayload
    /\ Len(fup.data.departures) = 2
    /\ 1 \in HardErrorPositions
    /\ 2 \in EnrichmentErrorPositions
    /\ Len(fresult) = 1
    /\ fst.error_count = 1
    /\ fst.enhancement_errors = 1

\* C11: the list fetch_departures_from_ptv returns, the list
\* scrape_departures returns and the list stored in the cache from it are in
\* ascending order of the scheduled_time text.
C11_FetcherOutputSorted ==
    /\ fpc = "returned" => IsSorted(fresult)
    /\ spc \in {"returned", "stored"} => IsSorted(sresult)
    /\ IsSorted(spending.value)
    /\ IsSorted(scache)

\* the API variant has returned two records that came in descending order
C11_Witness ==
    /\ FetchedPayload
    /\ Len(fst.departures) = 2
    /\ fst.departures[1].scheduled_time = <<8, 15>>
    /\ fst.departures[2].scheduled_time = <<7, 5>>
    /\ Len(fresult) = 2
    /\ fresult[1].scheduled_time = <<7, 5>>
    /\ fresult[2].scheduled_time = <<8, 15>>

\* C17: when print_timetable or save_to_json fails in a cycle whose result is
\* not empty, the cache holds that cycle's list and timestamp, updating ends
\* FALSE, and the cycle ends as a successful one does: with the sleep of 300
\* seconds.
C17_SnapshotFailureLeavesCycleSuccessful ==
    pc = "sleep" /\ raisedIn =>
        /\ cache.departures = departures
        /\ depCycle = cycle
        /\ luCycle = cycle
        /\ ~cache.updating
        /\ sleepSecs = SleepNormal

\* whether PTV_DEV_ID or PTV_API_KEY is empty or unset
CredentialsMissing == creds.dev_id = "" \/ creds.api_key = ""

\* C18: with PTV_DEV_ID or PTV_API_KEY empty or unset the process exits
\* before the refresh thread is started and before a request is served; with
\* both set the process starts, the check having been made once, and no cycle
\* or request makes it again or ends the process.
C18_CredentialsCheckedOnceAtStartup ==
    /\ CredentialsMissing =>
           /\ main \in {"import", "exited"}
           /\ cycle = 0 /\ pc = "top" /\ ~cache.updating
           /\ \A r \in Readers : rpc[r] = "idle"
    /\ ~CredentialsMissing => main # "exited"
    /\ checks <= 1
    /\ main # "import" => checks = 1
    /\ cycle > 0 \/ (\E r \in Readers : rpc[r] # "idle") =>
           main \in {"thread_started", "serving"}

\* the secret key is unset, the developer id is set: the process has exited
C18_Witness ==
    /\ creds.dev_id # ""
    /\ creds.api_key = ""
    /\ main = "exited"
    /\ checks = 1

\* the record at hand with estimated_departure_utc taken away, and the
\* payload holding that record
WithoutEstimate == [NormRecord EXCEPT !.estimated_departure_utc = Missing]
PayloadWithoutEstimate ==
    [fup EXCEPT !.data.departures = <<WithoutEstimate>>]
EstimateUnparseable ==
    /\ Truthy(NormRecord.estimated_departure_utc)
    /\ ~ParsesIso(NormRecord.estimated_departure_utc)

\* C21: an estimated_departure_utc that cannot be parsed changes nothing but
\* live_time: the Normalizer and the Fetcher end as they do for the same
\* record without an estimate, live_time being null in what they return; and
\* live_time is null when estimated_departure_utc is absent.
C21_EstimateParseErrorStaysInside ==
    /\ EstimateUnparseable \/ NormRecord.estimated_departure_utc = Missing =>
        /\ npc = "returned" => nout.live_time = NoTime
        /\ fpc = "returned" =>
               \A i \in 1..Len(fresult) : fresult[i].live_time = NoTime
    /\ EstimateUnparseable =>
        /\ npc # "call" =>
               LET plain == parse_departure_data(WithoutEstimate,
                                fup.data.routes, fup.data.directions,
                                fup.data.runs, fup.data.disruptions, now)
               IN  /\ (npc = "raised") = plain.raised
                   /\ npc = "returned" => nout = plain.value
        /\ fpc = "returned" =>
               \E j \in Jitters :
                   fresult = fetch_departures_from_ptv(PayloadWithoutEstimate,
                                                       now, <<j>>)

\* an estimate that is no timestamp: both return the record, live_time null
C21_Witness ==
    /\ NormRecord.estimated_departure_utc = StrV("late")
    /\ npc = "returned"
    /\ nout.live_time = NoTime
    /\ fpc = "returned"
    /\ Len(fresult) = 1
    /\ fresult[1].live_time = NoTime
    /\ fresult[1].scheduled_time = <<8, 15>>

\* C22: scrape_departures makes at most 3 attempts and returns the sorted
\* list of the first attempt that found a departure, or the empty list when
\* none did; never more than one browser session is open, and no session is
\* open when an attempt starts or when the function has returned.
C22_ScrapeBoundedAndReleasing ==
    /\ sattempt <= MaxRetries
    /\ spc = "attempt" => sattempt < MaxRetries
    /\ Cardinality(sopen) <= 1
    /\ spc \in {"attempt", "returned", "stored"} => sopen = {}
    /\ spc \in {"returned", "stored"} =>
           /\ IsSorted(sresult)
           /\ sresult = sfirst

\* C23: the cache never goes back to empty: in both services, from the
\* moment last_updated is set, last_updated stays set and the cached list is
\* never empty, whatever empty results, upstream failures and handled
\* exceptions follow.
C23_CacheNeverGoesBackToEmpty ==
    [][ /\ cache'.last_updated # None => cache'.departures # <<>>
        /\ cache.last_updated # None => cache'.last_updated # None
        /\ cache.departures # <<>> => cache'.departures # <<>>
        /\ slu' # None => scache' # <<>>
        /\ slu # None => slu' # None
        /\ scache # <<>> => scache' # <<>> ]_vars

\* the second cycle met a platform without departures and has ended: the
\* list and the timestamp of the first cycle are still in the cache
C23_Witness ==
    /\ cycle = 2
    /\ pc = "sleep"
    /\ upstream = "ok"
    /\ departures = <<>>
    /\ depCycle = 1
    /\ luCycle = 1
    /\ cache.departures # <<>>
    /\ cache.last_updated # None

====
